---------------------------- MODULE Spec2Model ----------------------------
(***************************************************************************)
(* Verification model of the LiveEvalJS snippet evaluation engine:         *)
(*   - the in-process ExecutionEngine (context registry, declaration       *)
(*     normalisation, console capture, thenable await),                    *)
(*   - the first revision of ExecutionEngine kept in core/ExecutionEngine, *)
(*   - the isolation tier: SandboxManager and its worker process.          *)
(***************************************************************************)
EXTENDS Integers, Sequences, FiniteSets, TLC

\* ------------------------------------------------------------------ bounds
MaxEvals == 3      \* execute calls started in one behaviour
MaxAdminEvals == 2 \* the same, where the registry operations interleave
MaxOrder == 3      \* length the recency list may grow to
MaxRequests == 2   \* execute calls on the worker session
MaxProcs == 2      \* worker processes one session forks
MaxEdits == 2      \* edits of the document that schedule an evaluation
MaxLines == 2      \* marked lines of the document
maxContexts == 1   \* the cap on contextOrder (50 in the source), scaled to the
                   \* two context ids of the model
cacheSize == 2     \* the cap on scriptCache (100 by default in the source), scaled

\* ---------------------------------------------------------------- domains
Ids == {"docA", "ts-docB"}
Names == {"x"}
Blocked == {"process", "require", "global"}  \* host names createContext shadows
Globals == Names \cup Blocked
Values == {"1", "2"}
Undefined == "undefined"          \* the value undefined
Absent == "<absent>"              \* no binding
TDZ == "<uninitialised>"          \* lexical binding whose initialiser threw
TypeUndefined == "'undefined'"    \* the string typeof yields for no binding
TypeNumber == "'number'"
TypeObject == "'object'"
ObjectValue == "[object]"         \* a Timeout handle
PromiseValue == "[promise]"
PushCount == "[count]"            \* the number Array.prototype.push returns
Inits == Values \cup {"throws"}
Languages == {"javascript", "typescript"}

\* Snippets, as abstract syntax:
\*   decl       const <name> = <init>;      init "throws": the initialiser throws
\*   declTyped  const <name>: number = <init>;
\*   ident      <name>
\*   typeof     typeof <name>
\*   log        console.log('hello')      its value is what the closure's push returns
\*   throw      throw new Error('e')
\*   loop       while(true) {}
\*   timer      setTimeout(() => console.log('late'), 10)
\*   sleep      new Promise(r => setTimeout(r, 50))
\*   empty      the empty string
\*   hang       ({ then() {} })            a thenable whose then returns nothing
\*                                         and never calls back
Snippets ==
    [op : {"decl"}, name : Names, init : Inits]
    \cup [op : {"declTyped"}, name : Names, init : {"1"}]
    \cup [op : {"ident", "typeof"}, name : Names, init : {"-"}]
    \cup [op : {"log", "throw", "loop", "timer", "sleep", "empty"},
          name : {"-"}, init : {"-"}]

NoSnippet == [op |-> "empty", name |-> "-", init |-> "-"]

\* The snippets evaluated where the registry operations interleave.
RegistrySnippets ==
    {s \in Snippets : s.op \in {"decl", "ident", "log", "sleep"} /\ s.init \in {"1", "-"}}

\* Snippets that probe the shadowed host names, redefine them, or hold more
\* than one statement:
\*   logVoid    (() => { console.log('hello') })()
\*   block      console.log('hello')
\*              const <name> = <init>;
ProbeSnippets ==
    [op : {"typeof"}, name : Blocked, init : {"-"}]
    \cup [op : {"decl"}, name : Globals, init : {"1"}]
    \cup [op : {"block"}, name : Names, init : {"1"}]
    \cup [op : {"ident"}, name : Names, init : {"-"}]
    \cup [op : {"log", "logVoid"}, name : {"-"}, init : {"-"}]

\* Snippets whose value is awaited.
AwaitSnippets ==
    [op : {"sleep", "hang", "log"}, name : {"-"}, init : {"-"}]

VARIABLES
    contexts,      \* ExecutionEngine.contexts: id -> ExecutionContext (NoContext: no entry)
    detached,      \* per id: the context object an execute call in progress still
                   \* holds after the registry dropped or replaced it
    contextOrder,  \* ExecutionEngine.contextOrder
    inflight,      \* per id: the execute call in progress and where it is suspended
    history,       \* per id: the last results returned for the registered context
    escaped,       \* an execute call threw / returned a rejected promise
    evalSeq        \* number of execute calls started

engineVars == <<contexts, detached, contextOrder, inflight, history, escaped, evalSeq>>

\* ------------------------------------------------------ ExecutionContext
\* sandbox: the properties of the sandbox object; lexical: the const bindings of
\* the context's script scope; variables: the names of context.variables;
\* buffer: bufferHolder.buffer, the array the console closures push to, each
\* entry marked "cur" when the snippet of the latest evaluation of this context
\* wrote it and "old" when an earlier snippet (or a callback it left) did;
\* lateCur, lateOld: console.log callbacks scheduled with the sandbox's
\* setTimeout and not yet run, by the latest and by earlier snippets.
NoContext ==
    [language |-> "none", sandbox |-> [n \in Globals |-> Absent],
     lexical |-> [n \in Globals |-> Absent], variables |-> {},
     buffer |-> <<>>, quokka |-> Undefined, lateCur |-> 0, lateOld |-> 0]

\* A sandbox object that hands the host's process, require and global through.
createContextWithHost(language) ==
    [NoContext EXCEPT !.language = language,
                      !.sandbox = [n \in Globals |->
                                      IF n \in Blocked THEN ObjectValue ELSE Absent]]

\* createContext: a fresh sandbox object on which process, require and global
\* are properties whose value is undefined, an empty buffer shared by the
\* console closures and the bufferHolder, an empty variables map,
\* __quokka_result undefined.
createContext(language) ==
    [NoContext EXCEPT !.language = language,
                      !.sandbox = [n \in Globals |->
                                      IF n \in Blocked THEN Undefined ELSE Absent]]

\* A registry lookup that never finds an entry.
HasNever(id) == FALSE

Has(id) == contexts[id] # NoContext

Idle ==
    [phase |-> "idle", on |-> "-", code |-> NoSnippet, promise |-> "none",
     value |-> Undefined, err |-> "none"]

\* The regular expression of execute that guesses the language from
\* contextId + ' ' + code: an id with a delimited "ts" part that is followed by
\* another delimiter, the word interface, or a colon before an identifier.
TsIds == {"ts-docB"}
looksLikeTs(id, s) == id \in TsIds \/ s.op = "declTyped"

\* ------------------------------------------------------------ the scripts
\* The last non-empty line does not start with a declaration keyword, return
\* or throw (execute, lines 113 and 139).
LastIsExpression(s) ==
    s.op \in {"ident", "typeof", "log", "logVoid", "loop", "timer", "sleep", "hang"}

\* ts.transpile: type annotations are erased, everything else is emitted as is.
compileTypeScript(code) ==
    IF code.op = "declTyped" THEN [code EXCEPT !.op = "decl"] ELSE code

\* Executable code: the snippet, the form normalizeDeclarations gave it and
\* whether "; __quokka_result = (<last line>)" was appended.
Code(s, form, capture) ==
    [op |-> s.op, name |-> s.name, init |-> s.init, form |-> form, capture |-> capture]

Outcome(status, value, cx, logs, tmrs, thenable) ==
    [status |-> status, value |-> value, cx |-> cx, logs |-> logs,
     timers |-> tmrs, thenable |-> thenable]

Failed(kind, cx) == Outcome(kind, Undefined, cx, 0, 0, FALSE)

\* Identifier resolution in a vm context: the script scope's lexical bindings
\* shadow the properties of the sandbox object.
Lookup(cx, n) == IF cx.lexical[n] # Absent THEN cx.lexical[n] ELSE cx.sandbox[n]

\* script.runInContext for an assignment <name> = <init>, in sloppy mode: the
\* name becomes a property of the sandbox object.
RunAssign(code, cx, value) ==
    IF code.init = "throws" THEN Failed("runtime", cx)
    ELSE IF cx.lexical[code.name] # Absent
         THEN Failed("runtime", cx)      \* const binding or uninitialised binding
    ELSE Outcome("ok", IF value THEN code.init ELSE Undefined,
                 [cx EXCEPT !.sandbox[code.name] = code.init], 0, 0, FALSE)

\* script.runInContext for a declaration executed as written.
RunDeclare(code, cx) ==
    IF cx.lexical[code.name] # Absent THEN Failed("syntax", cx)
    ELSE IF code.init = "throws"
         THEN Failed("runtime", [cx EXCEPT !.lexical[code.name] = TDZ])
    ELSE Outcome("ok", Undefined, [cx EXCEPT !.lexical[code.name] = code.init],
                 0, 0, FALSE)

\* The typeof operator; a name without a binding reads as undefined.
TypeOf(v) ==
    CASE v \in {Absent, Undefined} -> TypeUndefined
      [] v = ObjectValue -> TypeObject
      [] OTHER -> TypeNumber

Times(capture) == IF capture THEN 2 ELSE 1

Captured(code, cx, v) == IF code.capture THEN [cx EXCEPT !.quokka = v] ELSE cx

\* new vm.Script(code) followed by script.runInContext(context.sandbox).
RunScript(code, cx) ==
    IF \/ code.op = "declTyped"
       \/ code.op = "loop" /\ code.capture
    THEN Failed("syntax", cx)
    ELSE CASE code.op = "decl" /\ code.form = "assign" -> RunAssign(code, cx, TRUE)
           [] code.op = "decl" /\ code.form = "assignUndef" -> RunAssign(code, cx, FALSE)
           [] code.op = "decl" /\ code.form = "verbatim" -> RunDeclare(code, cx)
           [] code.op = "ident" ->
                IF Lookup(cx, code.name) \in {Absent, TDZ} THEN Failed("runtime", cx)
                ELSE Outcome("ok", Lookup(cx, code.name),
                             Captured(code, cx, Lookup(cx, code.name)), 0, 0, FALSE)
           [] code.op = "typeof" ->
                IF Lookup(cx, code.name) = TDZ THEN Failed("runtime", cx)
                ELSE LET t == TypeOf(Lookup(cx, code.name))
                     IN Outcome("ok", t, Captured(code, cx, t), 0, 0, FALSE)
           [] code.op = "log" ->
                Outcome("ok", PushCount, Captured(code, cx, PushCount),
                        Times(code.capture), 0, FALSE)
           [] code.op = "logVoid" ->
                Outcome("ok", Undefined, Captured(code, cx, Undefined),
                        Times(code.capture), 0, FALSE)
           [] code.op = "block" ->
                LET r == RunDeclare(code, cx)
                IN IF r.status = "syntax" THEN r ELSE [r EXCEPT !.logs = 1]
           [] code.op = "throw" -> Failed("runtime", cx)
           [] code.op = "loop" -> Failed("timeout", cx)
           [] code.op = "timer" ->
                Outcome("ok", ObjectValue, Captured(code, cx, ObjectValue),
                        0, Times(code.capture), FALSE)
           [] code.op = "sleep" ->
                Outcome("ok", PromiseValue, Captured(code, cx, PromiseValue),
                        0, 0, TRUE)
           [] code.op = "hang" ->
                Outcome("ok", ObjectValue, Captured(code, cx, ObjectValue),
                        0, 0, TRUE)
           [] OTHER -> Outcome("ok", Undefined, cx, 0, 0, FALSE)

\* ------------------------------------------------- ExecutionEngine (current)
\* A normalisation that leaves every declaration as written.
NormalizeKeepsDeclaration(code, cx) ==
    IF code.op = "decl"
    THEN [code |-> code, cx |-> [cx EXCEPT !.variables = @ \cup {code.name}]]
    ELSE [code |-> code, cx |-> cx]

\* normalizeDeclarations: a single declaration whose name is tracked in
\* context.variables, or is a property of the sandbox, becomes the assignment
\* "<name> = <value>"; otherwise the name is recorded and the snippet becomes
\* "<name> = <value>; undefined".  The name is recorded before anything runs.
normalizeDeclarations(code, cx) ==
    IF code.op = "decl"
    THEN IF code.name \in cx.variables \/ cx.sandbox[code.name] # Absent
         THEN [code |-> [code EXCEPT !.form = "assign"], cx |-> cx]
         ELSE [code |-> [code EXCEPT !.form = "assignUndef"],
               cx |-> [cx EXCEPT !.variables = @ \cup {code.name}]]
    ELSE [code |-> code, cx |-> cx]

Stamp(n, tag) == [i \in 1 .. n |-> tag]

\* What was written or scheduled before the evaluation that now starts belongs
\* to earlier snippets.
Age(cx) ==
    [cx EXCEPT !.buffer = Stamp(Len(@), "old"),
               !.lateOld = @ + cx.lateCur, !.lateCur = 0]

\* buffer.length = 0 (execute, lines 98-99).
clearBuffer(buffer) == <<>>

\* The thenable branch of executeInSandbox (lines 315-330): result.then(...)
\* is chained with .catch(...) and the timer stays armed until the thenable
\* settles ("pending"); when then returns nothing the chained call throws, the
\* catch clears the timer and resolves the promise with the thenable, which
\* never calls back ("stuck").
Awaited(code) == IF code.op = "hang" THEN "stuck" ELSE "pending"

\* executeInSandbox: runs the script synchronously; the promise it returns is
\* settled at once unless the script's value is a thenable, which is awaited.
\* Console writes go to the buffer shared with the sandbox's console closures.
executeInSandbox(code, cx) ==
    LET r == RunScript(code, cx)
    IN [cx |-> [r.cx EXCEPT !.buffer = @ \o Stamp(r.logs, "cur"),
                            !.lateCur = @ + r.timers],
        promise |-> IF r.status # "ok" THEN "rejected"
                    ELSE IF r.thenable THEN Awaited(code) ELSE "resolved",
        value |-> r.value,
        err |-> IF r.status = "ok" THEN "none" ELSE r.status]

\* One sandbox object behind every registered context.
RegisteredShared(c, id, cx) ==
    [i \in Ids |-> IF i = id THEN cx
                   ELSE IF c[i] # NoContext THEN [c[i] EXCEPT !.sandbox = cx.sandbox]
                   ELSE c[i]]

\* this.contexts.set(contextId, context) (execute, line 92), and the writes of
\* an evaluation to the context object registered under contextId.
Registered(c, id, cx) == [c EXCEPT ![id] = cx]

\* The context object of the execute call in progress on id.
Ctx(id) == IF inflight[id].on = "registered" THEN contexts[id] ELSE detached[id]

\* The call in progress on id writes cx back to its context object.
Store(id, cx) ==
    IF inflight[id].on = "registered"
    THEN contexts' = Registered(contexts, id, cx) /\ UNCHANGED detached
    ELSE detached' = [detached EXCEPT ![id] = cx] /\ UNCHANGED contexts

\* The observer keeps the last three results returned for a context.
Remember(id, res) ==
    LET h == Append(history[id], res)
    IN [history EXCEPT ![id] = IF Len(h) > 3 THEN Tail(h) ELSE h]

\* An engine that announces successes only.
EmitOnSuccessOnly(isError) == IF isError THEN <<>> ELSE <<"execution:success">>

\* this.emit(...): the try block of execute ends with 'execution:success'
\* (line 171), its catch block with 'execution:error' (line 194).
Emit(isError) ==
    IF isError THEN <<"execution:error">> ELSE <<"execution:success">>

\* The result of one execute call, with the events emitted during the call.
Result(s, isError, err, value, out) ==
    [code |-> s, isError |-> isError, err |-> err, value |-> value,
     consoleOutput |-> out, events |-> Emit(isError)]

\* execute, from its entry to the first await (lines 83-130): the context is
\* looked up or created (and registered, without touching contextOrder), its
\* buffer is emptied in place, a TypeScript snippet gets the capture of its last
\* line appended and is transpiled, the declaration is normalised and the script
\* is run.
ExecuteBegin(id, s) ==
    /\ inflight[id] = Idle
    /\ LET cx0 == IF Has(id) THEN Age(contexts[id])
                  ELSE createContext(IF looksLikeTs(id, s) THEN "typescript"
                                     ELSE "javascript")
           cx1 == [cx0 EXCEPT !.buffer = clearBuffer(@)]
           pre == IF cx1.language = "typescript"
                  THEN compileTypeScript(Code(s, "verbatim", LastIsExpression(s)))
                  ELSE Code(s, "verbatim", FALSE)
           nd == normalizeDeclarations(pre, cx1)
           run == executeInSandbox(nd.code, nd.cx)
       IN /\ contexts' = Registered(contexts, id, run.cx)
          /\ inflight' = [inflight EXCEPT ![id] =
                             [phase |-> "main", on |-> "registered", code |-> s,
                              promise |-> run.promise, value |-> run.value,
                              err |-> run.err]]
    /\ evalSeq' = evalSeq + 1
    /\ UNCHANGED <<detached, contextOrder, history, escaped>>

\* The result object of execute (lines 153-172 and 174-195): a TypeScript
\* context falls back to __quokka_result, the buffer is copied.
Finish(id, isError, err, v) ==
    LET f == inflight[id]
        cx == Ctx(id)
        final == IF ~isError /\ v = Undefined /\ cx.language = "typescript"
                 THEN cx.quokka ELSE v
        res == Result(f.code, isError, err, final, cx.buffer)
    IN /\ history' = IF f.on = "registered" THEN Remember(id, res) ELSE history
       /\ inflight' = [inflight EXCEPT ![id] = Idle]
       /\ detached' = [detached EXCEPT ![id] = NoContext]
       /\ UNCHANGED contexts

\* execute, resumed after an await.  After the main script: a rejection is
\* caught and reported; an undefined value of a snippet whose last line is an
\* expression makes execute run that line again as an expression (lines
\* 134-151).  After that second run: its value, or undefined when it failed.
ExecuteResume(id) ==
    LET f == inflight[id]
    IN /\ f.phase \in {"main", "retry"}
       /\ f.promise \in {"resolved", "rejected"}
       /\ IF f.phase = "main" /\ f.promise = "rejected"
          THEN Finish(id, TRUE, f.err, Undefined)
          ELSE IF f.phase = "main" /\ f.value = Undefined /\ LastIsExpression(f.code)
          THEN LET run == executeInSandbox(Code(f.code, "verbatim", FALSE), Ctx(id))
               IN /\ Store(id, run.cx)
                  /\ inflight' = [inflight EXCEPT ![id] =
                                     [f EXCEPT !.phase = "retry", !.promise = run.promise,
                                               !.value = run.value, !.err = run.err]]
                  /\ UNCHANGED history
          ELSE Finish(id, FALSE, "none",
                      IF f.promise = "resolved" THEN f.value ELSE Undefined)
       /\ UNCHANGED <<contextOrder, escaped, evalSeq>>

\* A console.log callback that a snippet scheduled through the sandbox's
\* setTimeout runs: it pushes to the buffer of the context it was created in.
LateLog(cx, origin) ==
    IF origin = "cur"
    THEN [cx EXCEPT !.lateCur = @ - 1, !.buffer = Append(@, "cur")]
    ELSE [cx EXCEPT !.lateOld = @ - 1, !.buffer = Append(@, "old")]

Scheduled(cx, origin) == IF origin = "cur" THEN cx.lateCur > 0 ELSE cx.lateOld > 0

TimerFire(id, on, origin) ==
    /\ IF on = "registered"
       THEN /\ Has(id) /\ Scheduled(contexts[id], origin)
            /\ contexts' = [contexts EXCEPT ![id] = LateLog(@, origin)]
            /\ UNCHANGED detached
       ELSE /\ detached[id] # NoContext /\ Scheduled(detached[id], origin)
            /\ detached' = [detached EXCEPT ![id] = LateLog(@, origin)]
            /\ UNCHANGED contexts
    /\ UNCHANGED <<contextOrder, inflight, history, escaped, evalSeq>>

\* The thenable a snippet returned is fulfilled (its own timer ran): the
\* awaiting promise resolves with undefined.
ThenableSettle(id) ==
    /\ inflight[id].promise = "pending"
    /\ inflight' = [inflight EXCEPT ![id] =
                       [@ EXCEPT !.promise = "resolved", !.value = Undefined]]
    /\ UNCHANGED <<contexts, detached, contextOrder, history, escaped, evalSeq>>

\* The timer executeInSandbox arms (lines 304-306) rejects the promise of an
\* evaluation that is still awaiting its thenable.
ExecuteTimeout(id) ==
    /\ inflight[id].promise = "pending"
    /\ inflight[id].phase \in {"main", "retry"}
    /\ inflight' = [inflight EXCEPT ![id] =
                       [@ EXCEPT !.promise = "rejected", !.err = "timeout"]]
    /\ UNCHANGED <<contexts, detached, contextOrder, history, escaped, evalSeq>>

RemoveFirst(order, id) ==
    LET idx == CHOOSE i \in 1 .. Len(order) :
                   order[i] = id /\ \A j \in 1 .. (i - 1) : order[j] # id
    IN IF \E i \in 1 .. Len(order) : order[i] = id
       THEN SubSeq(order, 1, idx - 1) \o SubSeq(order, idx + 1, Len(order))
       ELSE order

\* The eviction loop of getContext (lines 66-69): while the recency list is
\* longer than the cap, its head is shifted off and that id is disposed.
RECURSIVE Evict(_, _)
Evict(order, c) ==
    IF Len(order) > maxContexts
    THEN Evict(Tail(order), [c EXCEPT ![Head(order)] = NoContext])
    ELSE [order |-> order, contexts |-> c]

\* The registry becomes c: a call in progress on a context that c no longer
\* holds keeps its reference to the object; the results remembered for a
\* replaced context are forgotten.
Replace(c) ==
    /\ contexts' = c
    /\ detached' = [i \in Ids |->
                       IF c[i] # contexts[i] /\ inflight[i].on = "registered"
                       THEN contexts[i] ELSE detached[i]]
    /\ inflight' = [i \in Ids |->
                       IF c[i] # contexts[i] /\ inflight[i].on = "registered"
                       THEN [inflight[i] EXCEPT !.on = "detached"] ELSE inflight[i]]
    /\ history' = [i \in Ids |-> IF c[i] # contexts[i] THEN <<>> ELSE history[i]]

\* getContext (lines 53-71).
GetContext(id, language) ==
    /\ Len(contextOrder) < MaxOrder
    /\ IF Has(id)
       THEN /\ contextOrder' = Append(RemoveFirst(contextOrder, id), id)
            /\ UNCHANGED <<contexts, detached, inflight, history>>
       ELSE LET ev == Evict(Append(contextOrder, id),
                            [contexts EXCEPT ![id] = createContext(language)])
            IN /\ contextOrder' = ev.order
               /\ Replace(ev.contexts)
    /\ UNCHANGED <<escaped, evalSeq>>

\* A reset that empties the variables map and the buffer and keeps the sandbox.
ClearContextKeepsSandbox(id) ==
    /\ Has(id)
    /\ contexts' = [contexts EXCEPT ![id] = [@ EXCEPT !.variables = {}, !.buffer = <<>>]]
    /\ history' = [history EXCEPT ![id] = <<>>]
    /\ UNCHANGED <<detached, inflight, contextOrder, escaped, evalSeq>>

\* clearContext (lines 202-212): a new context object of the same language
\* replaces the old one in the registry.
ClearContext(id) ==
    /\ Has(id)
    /\ contexts' = [contexts EXCEPT ![id] = createContext(contexts[id].language)]
    /\ detached' = [detached EXCEPT ![id] =
                       IF inflight[id].on = "registered"
                       THEN [contexts[id] EXCEPT !.variables = {}] ELSE @]
    /\ inflight' = [inflight EXCEPT ![id] =
                       IF @.on = "registered" THEN [@ EXCEPT !.on = "detached"] ELSE @]
    /\ history' = [history EXCEPT ![id] = <<>>]
    /\ UNCHANGED <<contextOrder, escaped, evalSeq>>

\* A disposal that empties the registry.
DisposeEveryContext(id) ==
    /\ Has(id)
    /\ Replace([i \in Ids |-> NoContext])
    /\ UNCHANGED <<contextOrder, escaped, evalSeq>>

\* disposeContext (lines 217-220).
DisposeContext(id) ==
    /\ Has(id)
    /\ Replace([contexts EXCEPT ![id] = NoContext])
    /\ UNCHANGED <<contextOrder, escaped, evalSeq>>

\* ------------------------------------ ExecutionEngine (core/ExecutionEngine.ts)
\* normalizeDeclarations of the first revision: a tracked name becomes an
\* assignment, an untracked one is recorded and the declaration runs as written.
legacyNormalizeDeclarations(code, cx) ==
    IF code.op = "decl"
    THEN IF code.name \in cx.variables \/ cx.sandbox[code.name] # Absent
         THEN [code |-> [code EXCEPT !.form = "assign"], cx |-> cx]
         ELSE [code |-> code, cx |-> [cx EXCEPT !.variables = @ \cup {code.name}]]
    ELSE [code |-> code, cx |-> cx]

\* getContext of the first revision: no recency list, no eviction.
LegacyGetContext(id, language) ==
    /\ ~Has(id)
    /\ contexts' = [contexts EXCEPT ![id] = createContext(language)]
    /\ UNCHANGED <<detached, contextOrder, inflight, history, escaped, evalSeq>>

\* execute of the first revision, to its await: an id without a context makes
\* the call throw before the try block; otherwise the script runs.  The console
\* closures keep writing to the array created with the context, while execute
\* replaces context.consoleBuffer by a new array.
LegacyExecuteBegin(id, s) ==
    /\ inflight[id] = Idle
    /\ evalSeq' = evalSeq + 1
    /\ IF ~Has(id)
       THEN /\ escaped' = TRUE
            /\ UNCHANGED <<contexts, inflight>>
       ELSE LET cx == Age(contexts[id])
                pre == IF cx.language = "typescript"
                       THEN compileTypeScript(Code(s, "verbatim", FALSE))
                       ELSE Code(s, "verbatim", FALSE)
                nd == legacyNormalizeDeclarations(pre, cx)
                run == executeInSandbox(nd.code, nd.cx)
            IN /\ contexts' = [contexts EXCEPT ![id] = run.cx]
               /\ inflight' = [inflight EXCEPT ![id] =
                                  [phase |-> "legacy", on |-> "registered", code |-> s,
                                   promise |-> run.promise, value |-> run.value,
                                   err |-> run.err]]
               /\ UNCHANGED escaped
    /\ UNCHANGED <<detached, contextOrder, history>>

\* execute of the first revision, resumed: the result copies
\* context.consoleBuffer, the array assigned at the start of this call.
LegacyExecuteResume(id) ==
    LET f == inflight[id]
        res == Result(f.code, f.promise = "rejected", f.err,
                      IF f.promise = "resolved" THEN f.value ELSE Undefined, <<>>)
    IN /\ f.phase = "legacy"
       /\ f.promise \in {"resolved", "rejected"}
       /\ history' = IF f.on = "registered" THEN Remember(id, res) ELSE history
       /\ inflight' = [inflight EXCEPT ![id] = Idle]
       /\ detached' = [detached EXCEPT ![id] = NoContext]
       /\ UNCHANGED <<contexts, contextOrder, escaped, evalSeq>>

\* --------------------------------------------- isolation tier: SandboxManager
Pids == 1 .. MaxProcs
ReqIds == 1 .. MaxRequests

\* Code sent to the worker.
WorkerCodes ==
    [op : {"decl"}, name : Names, init : Values]
    \cup [op : {"ident"}, name : Names, init : {"-"}]
    \cup [op : {"log"}, name : {"-"}, init : {"-"}]

\* Code sent to a worker that is kept across requests:
\*   logThrow   (() => { console.log('hello'); throw new Error('e') })()
WorkerProbeCodes ==
    [op : {"decl"}, name : Names, init : Values]
    \cup [op : {"ident"}, name : Names, init : {"-"}]
    \cup [op : {"logThrow"}, name : {"-"}, init : {"-"}]

VARIABLES
    proc,        \* SandboxManager.proc: the pid referenced, 0 for undefined
    procs,       \* per pid: the child process and its ChildProcess object
    spawned,     \* number of processes forked so far
    pending,     \* SandboxManager.pending: the correlation ids with a resolver
    counter,     \* SandboxManager.counter
    requests,    \* per correlation id: the promise execute returned and its timer
    inbox,       \* per pid: the requests sent and not yet handled by the worker
    replies      \* messages the workers sent, not yet delivered to the session

sandboxVars == <<proc, procs, spawned, pending, counter, requests, inbox, replies>>

VARIABLES
    evalTimers,  \* Evaluator.evalTimers: the timer handle kept for the document, 0 for none
    armed,       \* the debounce timers set and neither fired nor cleared
    passes,      \* the evaluateEditor calls started: where each one is
    edits,       \* number of scheduleEvaluation calls so far
    disposed     \* "none", or the call that disposed the document's session

schedVars == <<evalTimers, armed, passes, edits, disposed>>

VARIABLES
    fmtValue,    \* the value handed to formatValue: the objects it reaches
    fmtText      \* what formatValue returned for it

fmtVars == <<fmtValue, fmtText>>

VARIABLES
    scriptCache, \* Sandbox.scriptCache: its entries in insertion order
    served       \* the last getScript call that returned: its arguments and its script

cacheVars == <<scriptCache, served>>

vars == <<engineVars, sandboxVars, schedVars, fmtVars, cacheVars>>

\* A child process: "none" (not forked), "running", "killed" (terminated by
\* kill(), its exit event not yet emitted), "crashed" (terminated on its own,
\* exit event not yet emitted), "exited" (exit event emitted).  killed is
\* ChildProcess.killed.  lexical is the worker's one vm context.
NoProc == [state |-> "none", killed |-> FALSE, lexical |-> [n \in Names |-> Absent]]
FreshProc == [state |-> "running", killed |-> FALSE, lexical |-> [n \in Names |-> Absent]]

NoRequest ==
    [state |-> "none", outcome |-> "none", pid |-> 0, timer |-> FALSE, code |-> NoSnippet,
     result |-> Undefined, console |-> <<>>]

\* resolve(res) of the promise execute returned: only the first call settles it.
Resolve(req, outcome, result, console) ==
    IF req.state = "open"
    THEN [req EXCEPT !.state = "resolved", !.outcome = outcome, !.result = result,
                     !.console = console]
    ELSE req

\* The resolver stored in pending (lines 44-47): clearTimeout, then resolve.
Callback(req, outcome, result, console) ==
    [Resolve(req, outcome, result, console) EXCEPT !.timer = FALSE]

\* A kill that sends no signal.
KillNothing(p) == p

\* A kill that sets the flag and leaves the child running.
KillFlagOnly(p) == [p EXCEPT !.killed = TRUE]

\* ChildProcess.kill(): the signal terminates a running child; killed is set.
Kill(p) ==
    [p EXCEPT !.killed = TRUE,
              !.state = IF @ = "running" THEN "killed" ELSE @]

\* start (lines 11-31): nothing to do while a process that was not killed is
\* referenced; otherwise a worker is forked and becomes the referenced process.
NeedsFork == proc = 0 \/ procs[proc].killed

\* An execute whose correlation ids start again at 1 with every worker forked.
SMExecuteRestartsCounter(code) ==
    /\ counter <= MaxRequests
    /\ NeedsFork => spawned < MaxProcs
    /\ LET p == IF NeedsFork THEN spawned + 1 ELSE proc
           id == IF NeedsFork THEN 1 ELSE counter
       IN /\ proc' = p
          /\ spawned' = IF NeedsFork THEN spawned + 1 ELSE spawned
          /\ procs' = IF NeedsFork THEN [procs EXCEPT ![p] = FreshProc] ELSE procs
          /\ counter' = id + 1
          /\ requests' = [requests EXCEPT ![id] =
                             [NoRequest EXCEPT !.state = "open", !.pid = p,
                                               !.timer = TRUE, !.code = code]]
          /\ pending' = pending \cup {id}
          /\ inbox' = [inbox EXCEPT ![p] = Append(@, id)]
    /\ UNCHANGED <<replies, engineVars>>

\* execute (lines 33-51): start, take the next correlation id, arm the timer,
\* store the resolver, send the request.
SMExecute(code) ==
    /\ counter <= MaxRequests
    /\ NeedsFork => spawned < MaxProcs
    /\ LET p == IF NeedsFork THEN spawned + 1 ELSE proc
           id == counter
       IN /\ proc' = p
          /\ spawned' = IF NeedsFork THEN spawned + 1 ELSE spawned
          /\ procs' = IF NeedsFork THEN [procs EXCEPT ![p] = FreshProc] ELSE procs
          /\ counter' = counter + 1
          /\ requests' = [requests EXCEPT ![id] =
                             [NoRequest EXCEPT !.state = "open", !.pid = p,
                                               !.timer = TRUE, !.code = code]]
          /\ pending' = pending \cup {id}
          /\ inbox' = [inbox EXCEPT ![p] = Append(@, id)]
    /\ UNCHANGED <<replies, engineVars>>

\* The worker evaluates code in its one context: first as "(code)", and when
\* that throws, whatever the error, as a statement (worker, lines 39-46).
WorkerEval(code, lex) ==
    CASE code.op = "decl" ->
            IF lex[code.name] # Absent
            THEN [ok |-> FALSE, result |-> Undefined, lexical |-> lex, logs |-> 0]
            ELSE [ok |-> TRUE, result |-> TypeUndefined,
                  lexical |-> [lex EXCEPT ![code.name] = code.init], logs |-> 0]
      [] code.op = "ident" ->
            IF lex[code.name] = Absent
            THEN [ok |-> FALSE, result |-> Undefined, lexical |-> lex, logs |-> 0]
            ELSE [ok |-> TRUE, result |-> lex[code.name], lexical |-> lex, logs |-> 0]
      [] code.op = "log" ->
            [ok |-> TRUE, result |-> PushCount, lexical |-> lex, logs |-> 1]
      [] code.op = "logThrow" ->       \* both attempts log, then throw
            [ok |-> FALSE, result |-> Undefined, lexical |-> lex, logs |-> 2]
      [] OTHER ->
            [ok |-> FALSE, result |-> Undefined, lexical |-> lex, logs |-> 0]

\* A message handler that builds a new sandbox for every request.
WorkerHandleFreshSandbox(p) ==
    /\ procs[p].state = "running"
    /\ inbox[p] # <<>>
    /\ LET id == Head(inbox[p])
           r == WorkerEval(requests[id].code, FreshProc.lexical)
       IN /\ replies' = replies \cup
                 {[id |-> id, ok |-> r.ok, result |-> r.result,
                   console |-> Stamp(r.logs, id)]}
          /\ inbox' = [inbox EXCEPT ![p] = Tail(@)]
    /\ UNCHANGED <<proc, procs, spawned, pending, counter, requests, engineVars>>

\* The worker's message handler (lines 27-60): the console buffer is emptied,
\* the code is evaluated and the reply carries the id of the request.
WorkerHandle(p) ==
    /\ procs[p].state = "running"
    /\ inbox[p] # <<>>
    /\ LET id == Head(inbox[p])
           r == WorkerEval(requests[id].code, procs[p].lexical)
       IN /\ procs' = [procs EXCEPT ![p].lexical = r.lexical]
          /\ replies' = replies \cup
                 {[id |-> id, ok |-> r.ok, result |-> r.result,
                   console |-> Stamp(r.logs, id)]}
          /\ inbox' = [inbox EXCEPT ![p] = Tail(@)]
    /\ UNCHANGED <<proc, spawned, pending, counter, requests, engineVars>>

\* The worker process dies on its own.
WorkerCrash(p) ==
    /\ procs[p].state = "running"
    /\ procs' = [procs EXCEPT ![p].state = "crashed"]
    /\ UNCHANGED <<proc, spawned, pending, counter, requests, inbox, replies, engineVars>>

\* A 'message' handler that hands the reply to the oldest resolver in pending.
OnMessageOldestPending(m) ==
    /\ m \in replies
    /\ replies' = replies \ {m}
    /\ IF pending # {}
       THEN LET i == CHOOSE j \in pending : \A k \in pending : j <= k
            IN /\ requests' = [requests EXCEPT ![i] =
                                  Callback(@, IF m.ok THEN "reply" ELSE "reply error",
                                           m.result, m.console)]
               /\ pending' = pending \ {i}
       ELSE UNCHANGED <<requests, pending>>
    /\ UNCHANGED <<proc, procs, spawned, counter, inbox, engineVars>>

\* The 'message' handler (lines 15-22).
OnMessage(m) ==
    /\ m \in replies
    /\ replies' = replies \ {m}
    /\ IF m.id \in pending
       THEN /\ requests' = [requests EXCEPT ![m.id] =
                               Callback(@, IF m.ok THEN "reply" ELSE "reply error",
                                        m.result, m.console)]
            /\ pending' = pending \ {m.id}
       ELSE UNCHANGED <<requests, pending>>
    /\ UNCHANGED <<proc, procs, spawned, counter, inbox, engineVars>>

\* An exit handler that drops the process reference and leaves the resolvers.
OnExitKeepsPending(p) ==
    /\ procs[p].state \in {"killed", "crashed"}
    /\ procs' = [procs EXCEPT ![p].state = "exited"]
    /\ proc' = 0
    /\ inbox' = [inbox EXCEPT ![p] = <<>>]
    /\ UNCHANGED <<spawned, pending, counter, requests, replies, engineVars>>

\* The 'exit' handler (lines 23-30): every resolver in pending is called with
\* 'worker exited' and deleted, and the reference to the process is dropped.
OnExit(p) ==
    /\ procs[p].state \in {"killed", "crashed"}
    /\ procs' = [procs EXCEPT ![p].state = "exited"]
    /\ requests' = [i \in ReqIds |->
                       IF i \in pending
                       THEN Callback(requests[i], "worker exited", Undefined, <<>>)
                       ELSE requests[i]]
    /\ pending' = {}
    /\ proc' = 0
    /\ inbox' = [inbox EXCEPT ![p] = <<>>]
    /\ UNCHANGED <<spawned, counter, replies, engineVars>>

\* A timer callback that kills the worker and leaves the promise unresolved.
OnTimeoutKillsOnly(id) ==
    /\ requests[id].timer
    /\ procs' = IF proc # 0 THEN [procs EXCEPT ![proc] = Kill(@)] ELSE procs
    /\ requests' = [requests EXCEPT ![id] = [@ EXCEPT !.timer = FALSE]]
    /\ UNCHANGED <<proc, spawned, pending, counter, inbox, replies, engineVars>>

\* The request's timer (lines 38-42): the referenced process, if any, is
\* killed and the promise is resolved with 'timeout'.
OnTimeout(id) ==
    /\ requests[id].timer
    /\ procs' = IF proc # 0 THEN [procs EXCEPT ![proc] = Kill(@)] ELSE procs
    /\ requests' = [requests EXCEPT ![id] =
                       [Resolve(@, "timeout", Undefined, <<>>) EXCEPT !.timer = FALSE]]
    /\ UNCHANGED <<proc, spawned, pending, counter, inbox, replies, engineVars>>

\* dispose (lines 53-59).
SMDispose ==
    /\ procs' = IF proc # 0 /\ ~procs[proc].killed
                THEN [procs EXCEPT ![proc] = Kill(@)] ELSE procs
    /\ proc' = 0
    /\ pending' = {}
    /\ UNCHANGED <<spawned, counter, requests, inbox, replies, engineVars>>

\* ------------------------------------------------- Evaluator (one document)
\* An evaluateEditor call: "none" (not started), "running" (between two
\* lines), "awaiting" (suspended at await sandbox.execute for request req),
\* "done"; left is the number of marked lines it still has to evaluate.
PassIds == 1 .. MaxEdits

NoPass == [state |-> "none", left |-> 0, req |-> 0]

\* A scheduleEvaluation that arms a timer without clearing the existing one.
ScheduleEvaluationKeepsTimer ==
    /\ edits < MaxEdits
    /\ edits' = edits + 1
    /\ armed' = armed \cup {edits + 1}
    /\ evalTimers' = edits + 1
    /\ UNCHANGED <<passes, disposed, sandboxVars, engineVars>>

\* scheduleEvaluation (lines 169-186): the document's timer, if any, is
\* cleared and a new one is armed, its handle kept in the map.
ScheduleEvaluation ==
    /\ edits < MaxEdits
    /\ edits' = edits + 1
    /\ armed' = (armed \ {evalTimers}) \cup {edits + 1}
    /\ evalTimers' = edits + 1
    /\ UNCHANGED <<passes, disposed, sandboxVars, engineVars>>

\* CodeRunner.scheduleEvaluation on a document without a live marker
\* (CodeRunner.ts lines 207-236): the existing timer is cleared, its handle
\* stays in the map, and no timer is armed.
ScheduleEvaluationNoMarker ==
    /\ edits < MaxEdits
    /\ edits' = edits + 1
    /\ armed' = armed \ {evalTimers}
    /\ UNCHANGED <<evalTimers, passes, disposed, sandboxVars, engineVars>>

\* The debounce timer fires (lines 177-180): its entry is deleted and
\* evaluateEditor is called; the call is not awaited.
DebounceFire(n) ==
    /\ \E t \in armed : armed' = armed \ {t}
    /\ evalTimers' = 0
    /\ LET p == CHOOSE q \in PassIds :
                    passes[q].state = "none"
                        /\ \A r \in 1 .. (q - 1) : passes[r].state # "none"
       IN passes' = [passes EXCEPT ![p] = [state |-> "running", left |-> n, req |-> 0]]
    /\ UNCHANGED <<edits, disposed, sandboxVars, engineVars>>

\* evaluateEditor reaches a marked line (lines 212-232): the code of the line
\* is sent to the document's session and the call suspends on the promise.
PassExecute(p, code) ==
    /\ passes[p].state = "running"
    /\ passes[p].left > 0
    /\ SMExecute(code)
    /\ passes' = [passes EXCEPT ![p] = [@ EXCEPT !.state = "awaiting", !.req = counter]]
    /\ UNCHANGED <<evalTimers, armed, edits, disposed>>

\* The awaited promise has resolved (lines 232-275): the loop goes on to the
\* next marked line, or the call ends.
PassResume(p) ==
    /\ passes[p].state = "awaiting"
    /\ requests[passes[p].req].state = "resolved"
    /\ passes' = [passes EXCEPT ![p] =
                     [state |-> IF @.left = 1 THEN "done" ELSE "running",
                      left |-> @.left - 1, req |-> 0]]
    /\ UNCHANGED <<evalTimers, armed, edits, disposed, sandboxVars, engineVars>>

\* Evaluator.dispose (lines 153-167): the session of the document is disposed
\* and the timer kept in evalTimers is cleared.
EvaluatorDispose ==
    /\ SMDispose
    /\ armed' = armed \ {evalTimers}
    /\ evalTimers' = 0
    /\ disposed' = "dispose"
    /\ UNCHANGED <<passes, edits>>

\* Evaluator.clearResults (lines 304-313): the session of the document is
\* disposed and removed from the map; the timers are left alone.
ClearResults ==
    /\ SMDispose
    /\ disposed' = "clearResults"
    /\ UNCHANGED <<evalTimers, armed, passes, edits>>

\* ------------------------------------------------------------- formatValue
\* The value is the object "a"; an object has up to two properties, in this
\* insertion order, each a number or a reference to an object.
Nodes == {"a", "b"}
Root == "a"
KeyIdx == 1 .. 2
FieldValues == {Absent, "1"} \cup Nodes
Heaps == [Nodes -> [KeyIdx -> FieldValues]]

\* Pieces of the text JSON.stringify produces.
Newline == "<newline>"
Space2 == "  "
Circular == "\"[Circular]\""
Ellipsis == "..."
ObjectFallback == "[Object]"
PrettyKeys == <<"\"p\": ", "\"q\": ">>
PlainKeys == <<"\"p\":", "\"q\":">>
NotFormatted == [by |-> "none", text |-> <<>>]

maxLength == 100

\* Number of characters of a piece.
TokLen(tok) ==
    CASE tok \in {"{", "}", ",", "1", Newline} -> 1
      [] tok \in {Space2, "{}"} -> 2
      [] tok = Ellipsis -> 3
      [] tok = Circular -> 12
      [] tok = PrettyKeys[1] \/ tok = PrettyKeys[2] -> 5
      [] OTHER -> 4

RECURSIVE Chars(_)
Chars(text) == IF text = <<>> THEN 0 ELSE TokLen(Head(text)) + Chars(Tail(text))

\* substring(0, max): a piece that does not fit whole is cut off.
RECURSIVE Substring(_, _)
Substring(text, max) ==
    IF text = <<>> \/ TokLen(Head(text)) > max THEN <<>>
    ELSE <<Head(text)>> \o Substring(Tail(text), max - TokLen(Head(text)))

Indent(d) == [i \in 1 .. d |-> Space2]

\* replacerCircular (lines 9-20): an object met before is replaced by the
\* string '[Circular]'; any other object is remembered.
replacerCircular(seen, v) ==
    IF v \in Nodes
    THEN IF v \in seen THEN [value |-> Circular, seen |-> seen]
         ELSE [value |-> v, seen |-> seen \cup {v}]
    ELSE [value |-> v, seen |-> seen]

\* JSON.stringify(value, replacerCircular(), 2): the properties of object n
\* from the k-th on, and an object at nesting depth d.
RECURSIVE SerializeMembers(_, _, _, _, _)
RECURSIVE SerializeObject(_, _, _, _)
SerializeMembers(heap, n, k, d, seen) ==
    IF k \notin KeyIdx THEN [text |-> <<>>, seen |-> seen]
    ELSE IF heap[n][k] = Absent THEN SerializeMembers(heap, n, k + 1, d, seen)
    ELSE LET r == replacerCircular(seen, heap[n][k])
             val == IF r.value \in Nodes
                    THEN SerializeObject(heap, r.value, d, r.seen)
                    ELSE [text |-> <<r.value>>, seen |-> r.seen]
             rest == SerializeMembers(heap, n, k + 1, d, val.seen)
         IN [text |-> <<Newline>> \o Indent(d) \o <<PrettyKeys[k]>> \o val.text
                        \o (IF rest.text = <<>> THEN <<>> ELSE <<",">>) \o rest.text,
             seen |-> rest.seen]

SerializeObject(heap, n, d, seen) ==
    LET m == SerializeMembers(heap, n, 1, d + 1, seen)
    IN IF m.text = <<>> THEN [text |-> <<"{}">>, seen |-> seen]
       ELSE [text |-> <<"{">> \o m.text \o <<Newline>> \o Indent(d) \o <<"}">>,
             seen |-> m.seen]

\* formatValue of lines 23-48, for an object.
formatValue(heap) ==
    LET jsonValue == SerializeObject(heap, Root, 0, replacerCircular({}, Root).seen).text
    IN IF Chars(jsonValue) > maxLength
       THEN Substring(jsonValue, maxLength) \o <<Ellipsis>>
       ELSE jsonValue

\* JSON.stringify without a replacer throws a TypeError when an object is
\* reached again below itself.
RECURSIVE HasCycle(_, _, _)
HasCycle(heap, n, path) ==
    \E k \in KeyIdx :
        /\ heap[n][k] \in Nodes
        /\ \/ heap[n][k] \in path
           \/ HasCycle(heap, heap[n][k], path \cup {heap[n][k]})

\* JSON.stringify(value) of a value without a cycle.
RECURSIVE StringifyMembers(_, _, _)
RECURSIVE Stringify(_, _)
StringifyMembers(heap, n, k) ==
    IF k \notin KeyIdx THEN <<>>
    ELSE IF heap[n][k] = Absent THEN StringifyMembers(heap, n, k + 1)
    ELSE LET val == IF heap[n][k] \in Nodes THEN Stringify(heap, heap[n][k])
                    ELSE <<heap[n][k]>>
             rest == StringifyMembers(heap, n, k + 1)
         IN <<PlainKeys[k]>> \o val \o (IF rest = <<>> THEN <<>> ELSE <<",">>) \o rest

Stringify(heap, n) == <<"{">> \o StringifyMembers(heap, n, 1) \o <<"}">>

\* formatValue of lines 70-97, for an object.
formatValueShared(heap) ==
    IF HasCycle(heap, Root, {Root}) THEN <<ObjectFallback>>
    ELSE LET json == Stringify(heap, Root)
         IN IF Chars(json) > maxLength
            THEN Substring(json, maxLength) \o <<Ellipsis>>
            ELSE json

\* A value is formatted by the one or the other formatValue.
FormatValue ==
    /\ fmtText = NotFormatted
    /\ fmtText' = [by |-> "replacer", text |-> formatValue(fmtValue)]
    /\ UNCHANGED <<fmtValue, engineVars, sandboxVars, schedVars, cacheVars>>

FormatValueShared ==
    /\ fmtText = NotFormatted
    /\ fmtText' = [by |-> "plain", text |-> formatValueShared(fmtValue)]
    /\ UNCHANGED <<fmtValue, engineVars, sandboxVars, schedVars, cacheVars>>

\* ------------------------------------------------- Sandbox (script cache)
\* The source texts handed to runScript, evalExpression and read.
Texts == {"", "1", "x", "if (x) {}", "1 +"}

\* The texts new vm.Script rejects with a SyntaxError.
safeRead(name) ==
    "(function(){ try { return typeof " \o name \o " === 'undefined' ? undefined : "
        \o name \o "; } catch(e) { return undefined; } })()"

SyntaxErrors ==
    {"1 +", "(1 +)", "(if (x) {})", safeRead(""), safeRead("if (x) {}"), safeRead("1 +")}

\* new vm.Script(code, { filename }): the script remembers what it was
\* compiled from.
Script(code, filename) == [filename |-> filename, code |-> code]

NotServed == [filename |-> "-", code |-> "-", script |-> Script("-", "-"), hit |-> FALSE]

cacheKey(filename, code) == filename \o ":" \o code

\* Map.has / Map.get on the cache.
CacheHas(cache, key) == \E i \in 1 .. Len(cache) : cache[i].key = key
CacheGet(cache, key) == (CHOOSE e \in {cache[i] : i \in 1 .. Len(cache)} : e.key = key).script

\* A getScript that makes room by removing the entry inserted last.
getScriptEvictsNewest(cache, code, filename) ==
    LET key == cacheKey(filename, code)
    IN IF CacheHas(cache, key)
       THEN [threw |-> FALSE, hit |-> TRUE, script |-> CacheGet(cache, key), cache |-> cache]
       ELSE IF code \in SyntaxErrors
       THEN [threw |-> TRUE, hit |-> FALSE, script |-> Script("-", "-"), cache |-> cache]
       ELSE LET room == IF Len(cache) >= cacheSize /\ cache # <<>>
                        THEN SubSeq(cache, 1, Len(cache) - 1) ELSE cache
            IN [threw |-> FALSE, hit |-> FALSE, script |-> Script(code, filename),
                cache |-> Append(room, [key |-> key, script |-> Script(code, filename)])]

\* getScript (lines 645-667): a hit returns the cached script; otherwise the
\* code is compiled, the first key of the map is deleted when the map holds
\* cacheSize entries or more, and the new script is stored.
getScript(cache, code, filename) ==
    LET key == cacheKey(filename, code)
    IN IF CacheHas(cache, key)
       THEN [threw |-> FALSE, hit |-> TRUE, script |-> CacheGet(cache, key), cache |-> cache]
       ELSE IF code \in SyntaxErrors
       THEN [threw |-> TRUE, hit |-> FALSE, script |-> Script("-", "-"), cache |-> cache]
       ELSE LET room == IF Len(cache) >= cacheSize /\ cache # <<>>
                        THEN Tail(cache) ELSE cache
            IN [threw |-> FALSE, hit |-> FALSE, script |-> Script(code, filename),
                cache |-> Append(room, [key |-> key, script |-> Script(code, filename)])]

\* What a getScript call leaves behind.
Serve(r, code, filename) ==
    /\ scriptCache' = r.cache
    /\ served' = IF r.threw THEN served
                 ELSE [filename |-> filename, code |-> code, script |-> r.script,
                       hit |-> r.hit]

\* runScript (lines 669-681): a blank text is not compiled.
runScript(code) ==
    /\ code # ""
    /\ Serve(getScript(scriptCache, code, "quokka-sandbox"), code, "quokka-sandbox")
    /\ UNCHANGED <<engineVars, sandboxVars, schedVars, fmtVars>>

\* evalExpression (lines 683-755): the text is compiled as "(" text ")"; when
\* that is a syntax error the text is run as a statement by runScript.
evalExpression(expr) ==
    /\ expr # ""
    /\ LET wrappedExpr == "(" \o expr \o ")"
           r == getScript(scriptCache, wrappedExpr, "quokka-expr")
       IN IF r.threw
          THEN Serve(getScript(r.cache, expr, "quokka-sandbox"), expr, "quokka-sandbox")
          ELSE Serve(r, wrappedExpr, "quokka-expr")
    /\ UNCHANGED <<engineVars, sandboxVars, schedVars, fmtVars>>

\* read (lines 757-777) of a name that is no own property of the context.
read(name) ==
    /\ Serve(getScript(scriptCache, safeRead(name), "quokka-read"), safeRead(name),
             "quokka-read")
    /\ UNCHANGED <<engineVars, sandboxVars, schedVars, fmtVars>>

\* Sandbox.dispose (lines 787-793).
SandboxDispose ==
    /\ scriptCache' = <<>>
    /\ UNCHANGED <<served, engineVars, sandboxVars, schedVars, fmtVars>>

\* ---------------------------------------------------------- specifications
EngineInit ==
    /\ contexts = [i \in Ids |-> NoContext]
    /\ detached = [i \in Ids |-> NoContext]
    /\ contextOrder = <<>>
    /\ inflight = [i \in Ids |-> Idle]
    /\ history = [i \in Ids |-> <<>>]
    /\ escaped = FALSE
    /\ evalSeq = 0
    /\ proc = 0
    /\ procs = [p \in Pids |-> NoProc]
    /\ spawned = 0
    /\ pending = {}
    /\ counter = 1
    /\ requests = [i \in ReqIds |-> NoRequest]
    /\ inbox = [p \in Pids |-> <<>>]
    /\ replies = {}
    /\ evalTimers = 0
    /\ armed = {}
    /\ passes = [p \in PassIds |-> NoPass]
    /\ edits = 0
    /\ disposed = "none"
    /\ scriptCache = <<>>
    /\ served = NotServed

Init ==
    /\ EngineInit
    /\ fmtValue = [n \in Nodes |-> [k \in KeyIdx |-> Absent]]
    /\ fmtText = NotFormatted

\* The in-process engine: evaluations on the contexts of two documents.
Next ==
    \/ \E id \in Ids, s \in Snippets :
          evalSeq < MaxEvals /\ ExecuteBegin(id, s) /\ UNCHANGED <<sandboxVars, schedVars, fmtVars, cacheVars>>
    \/ \E id \in Ids : ExecuteResume(id) /\ UNCHANGED <<sandboxVars, schedVars, fmtVars, cacheVars>>
    \/ \E id \in Ids : ExecuteTimeout(id) /\ UNCHANGED <<sandboxVars, schedVars, fmtVars, cacheVars>>
    \/ \E id \in Ids : ThenableSettle(id) /\ UNCHANGED <<sandboxVars, schedVars, fmtVars, cacheVars>>
    \/ \E id \in Ids, on \in {"registered", "detached"}, origin \in {"cur", "old"} :
          TimerFire(id, on, origin) /\ UNCHANGED <<sandboxVars, schedVars, fmtVars, cacheVars>>

Spec == Init /\ [][Next]_vars

\* The in-process engine with the operations on its registry.
RegistryNext ==
    \/ \E id \in Ids, s \in RegistrySnippets :
          evalSeq < MaxAdminEvals /\ ExecuteBegin(id, s) /\ UNCHANGED <<sandboxVars, schedVars, fmtVars, cacheVars>>
    \/ \E id \in Ids : ExecuteResume(id) /\ UNCHANGED <<sandboxVars, schedVars, fmtVars, cacheVars>>
    \/ \E id \in Ids : ExecuteTimeout(id) /\ UNCHANGED <<sandboxVars, schedVars, fmtVars, cacheVars>>
    \/ \E id \in Ids : ThenableSettle(id) /\ UNCHANGED <<sandboxVars, schedVars, fmtVars, cacheVars>>
    \/ \E id \in Ids, l \in Languages : GetContext(id, l) /\ UNCHANGED <<sandboxVars, schedVars, fmtVars, cacheVars>>
    \/ \E id \in Ids : ClearContext(id) /\ UNCHANGED <<sandboxVars, schedVars, fmtVars, cacheVars>>
    \/ \E id \in Ids : DisposeContext(id) /\ UNCHANGED <<sandboxVars, schedVars, fmtVars, cacheVars>>

RegistrySpec == Init /\ [][RegistryNext]_vars

\* The in-process engine probed for its host names, with clearContext.
ProbeNext ==
    \/ \E id \in Ids, s \in ProbeSnippets :
          evalSeq < MaxAdminEvals /\ ExecuteBegin(id, s) /\ UNCHANGED <<sandboxVars, schedVars, fmtVars, cacheVars>>
    \/ \E id \in Ids : ExecuteResume(id) /\ UNCHANGED <<sandboxVars, schedVars, fmtVars, cacheVars>>
    \/ \E id \in Ids : ClearContext(id) /\ UNCHANGED <<sandboxVars, schedVars, fmtVars, cacheVars>>

ProbeSpec == Init /\ [][ProbeNext]_vars

\* The first revision of the engine.
LegacyNext ==
    \/ \E id \in Ids, s \in Snippets :
          evalSeq < MaxAdminEvals /\ LegacyExecuteBegin(id, s) /\ UNCHANGED <<sandboxVars, schedVars, fmtVars, cacheVars>>
    \/ \E id \in Ids : LegacyExecuteResume(id) /\ UNCHANGED <<sandboxVars, schedVars, fmtVars, cacheVars>>
    \/ \E id \in Ids : ThenableSettle(id) /\ UNCHANGED <<sandboxVars, schedVars, fmtVars, cacheVars>>
    \/ \E id \in Ids, on \in {"registered", "detached"}, origin \in {"cur", "old"} :
          TimerFire(id, on, origin) /\ UNCHANGED <<sandboxVars, schedVars, fmtVars, cacheVars>>
    \/ \E id \in Ids, l \in Languages : LegacyGetContext(id, l) /\ UNCHANGED <<sandboxVars, schedVars, fmtVars, cacheVars>>
    \/ \E id \in Ids : ClearContext(id) /\ UNCHANGED <<sandboxVars, schedVars, fmtVars, cacheVars>>
    \/ \E id \in Ids : DisposeContext(id) /\ UNCHANGED <<sandboxVars, schedVars, fmtVars, cacheVars>>

LegacySpec == Init /\ [][LegacyNext]_vars

\* One worker session.
SandboxNext ==
    \/ \E c \in WorkerCodes : SMExecute(c) /\ UNCHANGED <<schedVars, fmtVars, cacheVars>>
    \/ \E p \in Pids : WorkerHandle(p) /\ UNCHANGED <<schedVars, fmtVars, cacheVars>>
    \/ \E p \in Pids : WorkerCrash(p) /\ UNCHANGED <<schedVars, fmtVars, cacheVars>>
    \/ \E m \in replies : OnMessage(m) /\ UNCHANGED <<schedVars, fmtVars, cacheVars>>
    \/ \E p \in Pids : OnExit(p) /\ UNCHANGED <<schedVars, fmtVars, cacheVars>>
    \/ \E id \in ReqIds : OnTimeout(id) /\ UNCHANGED <<schedVars, fmtVars, cacheVars>>
    \/ SMDispose /\ UNCHANGED <<schedVars, fmtVars, cacheVars>>

SandboxSpec == Init /\ [][SandboxNext]_vars

\* One worker session whose workers end only by the request timer.
WorkerNext ==
    \/ \E c \in WorkerProbeCodes : SMExecute(c) /\ UNCHANGED <<schedVars, fmtVars, cacheVars>>
    \/ \E p \in Pids : WorkerHandle(p) /\ UNCHANGED <<schedVars, fmtVars, cacheVars>>
    \/ \E m \in replies : OnMessage(m) /\ UNCHANGED <<schedVars, fmtVars, cacheVars>>
    \/ \E p \in Pids : OnExit(p) /\ UNCHANGED <<schedVars, fmtVars, cacheVars>>
    \/ \E id \in ReqIds : OnTimeout(id) /\ UNCHANGED <<schedVars, fmtVars, cacheVars>>

WorkerSpec == Init /\ [][WorkerNext]_vars

\* One worker session whose request timers fire when armed; nothing obliges a
\* worker to answer, to exit or its events to be delivered.
TimerExpires(id) == OnTimeout(id) /\ UNCHANGED <<schedVars, fmtVars, cacheVars>>

SessionNext ==
    \/ \E c \in WorkerProbeCodes : SMExecute(c) /\ UNCHANGED <<schedVars, fmtVars, cacheVars>>
    \/ \E p \in Pids : WorkerHandle(p) /\ UNCHANGED <<schedVars, fmtVars, cacheVars>>
    \/ \E p \in Pids : WorkerCrash(p) /\ UNCHANGED <<schedVars, fmtVars, cacheVars>>
    \/ \E m \in replies : OnMessage(m) /\ UNCHANGED <<schedVars, fmtVars, cacheVars>>
    \/ \E p \in Pids : OnExit(p) /\ UNCHANGED <<schedVars, fmtVars, cacheVars>>
    \/ \E id \in ReqIds : TimerExpires(id)

SessionSpec ==
    /\ Init /\ [][SessionNext]_vars
    /\ \A id \in ReqIds : WF_vars(TimerExpires(id))

\* The in-process engine evaluating snippets whose value is a thenable.  A
\* suspended call resumes once its promise is settled, and an armed timer
\* fires; nothing makes a thenable settle.
AwaitBegin(id, s) ==
    evalSeq < MaxEvals /\ ExecuteBegin(id, s) /\ UNCHANGED <<sandboxVars, schedVars, fmtVars, cacheVars>>
AwaitResume(id) == ExecuteResume(id) /\ UNCHANGED <<sandboxVars, schedVars, fmtVars, cacheVars>>
AwaitTimeout(id) == ExecuteTimeout(id) /\ UNCHANGED <<sandboxVars, schedVars, fmtVars, cacheVars>>
AwaitSettle(id) == ThenableSettle(id) /\ UNCHANGED <<sandboxVars, schedVars, fmtVars, cacheVars>>

AwaitNext ==
    \/ \E id \in Ids, s \in AwaitSnippets : AwaitBegin(id, s)
    \/ \E id \in Ids : AwaitResume(id)
    \/ \E id \in Ids : AwaitTimeout(id)
    \/ \E id \in Ids : AwaitSettle(id)

AwaitSpec ==
    /\ Init /\ [][AwaitNext]_vars
    /\ \A id \in Ids : WF_vars(AwaitResume(id)) /\ WF_vars(AwaitTimeout(id))

\* formatValue applied to every value of the bounded shape.
FormatInit ==
    /\ EngineInit
    /\ fmtValue \in Heaps
    /\ fmtText = NotFormatted

FormatNext == FormatValue \/ FormatValueShared

FormatSpec == FormatInit /\ [][FormatNext]_vars

\* The Evaluator with the worker session of one document.
EvaluatorNext ==
    \/ ScheduleEvaluation /\ UNCHANGED <<fmtVars, cacheVars>>
    \/ \E n \in 1 .. MaxLines : DebounceFire(n) /\ UNCHANGED <<fmtVars, cacheVars>>
    \/ \E p \in PassIds, c \in WorkerCodes : PassExecute(p, c) /\ UNCHANGED <<fmtVars, cacheVars>>
    \/ \E p \in PassIds : PassResume(p) /\ UNCHANGED <<fmtVars, cacheVars>>
    \/ \E p \in Pids : WorkerHandle(p) /\ UNCHANGED <<schedVars, fmtVars, cacheVars>>
    \/ \E p \in Pids : WorkerCrash(p) /\ UNCHANGED <<schedVars, fmtVars, cacheVars>>
    \/ \E m \in replies : OnMessage(m) /\ UNCHANGED <<schedVars, fmtVars, cacheVars>>
    \/ \E p \in Pids : OnExit(p) /\ UNCHANGED <<schedVars, fmtVars, cacheVars>>
    \/ \E id \in ReqIds : OnTimeout(id) /\ UNCHANGED <<schedVars, fmtVars, cacheVars>>

EvaluatorSpec == Init /\ [][EvaluatorNext]_vars

\* An evaluateEditor call is between two awaits: from its start, or from the
\* resumption of an await, to the next sandbox.execute the code runs without
\* interruption (lines 188-232), so no other handler of the extension host
\* runs then.
Uninterrupted == \E p \in PassIds : passes[p].state = "running"

\* The Evaluator of one document until its session is disposed, and the
\* evaluateEditor calls still in flight on the disposed session afterwards.
DisposalNext ==
    \/ ~Uninterrupted /\ disposed = "none" /\ ScheduleEvaluation /\ UNCHANGED <<fmtVars, cacheVars>>
    \/ ~Uninterrupted /\ disposed = "none" /\ ScheduleEvaluationNoMarker /\ UNCHANGED <<fmtVars, cacheVars>>
    \/ \E n \in 1 .. MaxLines :
          ~Uninterrupted /\ disposed = "none" /\ DebounceFire(n) /\ UNCHANGED <<fmtVars, cacheVars>>
    \/ \E p \in PassIds, c \in WorkerProbeCodes : PassExecute(p, c) /\ UNCHANGED <<fmtVars, cacheVars>>
    \/ \E p \in PassIds : ~Uninterrupted /\ PassResume(p) /\ UNCHANGED <<fmtVars, cacheVars>>
    \/ \E p \in Pids : WorkerHandle(p) /\ UNCHANGED <<schedVars, fmtVars, cacheVars>>
    \/ \E m \in replies : ~Uninterrupted /\ OnMessage(m) /\ UNCHANGED <<schedVars, fmtVars, cacheVars>>
    \/ \E p \in Pids : ~Uninterrupted /\ OnExit(p) /\ UNCHANGED <<schedVars, fmtVars, cacheVars>>
    \/ \E id \in ReqIds : ~Uninterrupted /\ OnTimeout(id) /\ UNCHANGED <<schedVars, fmtVars, cacheVars>>
    \/ ~Uninterrupted /\ disposed = "none" /\ EvaluatorDispose /\ UNCHANGED <<fmtVars, cacheVars>>
    \/ ~Uninterrupted /\ disposed = "none" /\ ClearResults /\ UNCHANGED <<fmtVars, cacheVars>>

DisposalSpec == Init /\ [][DisposalNext]_vars

\* The debounce timers of one document and the evaluateEditor calls they
\* start, with a worker that answers every request in time.
DebounceNext ==
    \/ ~Uninterrupted /\ disposed = "none" /\ ScheduleEvaluation /\ UNCHANGED <<fmtVars, cacheVars>>
    \/ ~Uninterrupted /\ disposed = "none" /\ ScheduleEvaluationNoMarker /\ UNCHANGED <<fmtVars, cacheVars>>
    \/ \E n \in 1 .. MaxLines :
          ~Uninterrupted /\ disposed = "none" /\ DebounceFire(n) /\ UNCHANGED <<fmtVars, cacheVars>>
    \/ \E p \in PassIds : PassExecute(p, [op |-> "ident", name |-> "x", init |-> "-"])
                               /\ UNCHANGED <<fmtVars, cacheVars>>
    \/ \E p \in PassIds : ~Uninterrupted /\ PassResume(p) /\ UNCHANGED <<fmtVars, cacheVars>>
    \/ \E p \in Pids : WorkerHandle(p) /\ UNCHANGED <<schedVars, fmtVars, cacheVars>>
    \/ \E m \in replies : ~Uninterrupted /\ OnMessage(m) /\ UNCHANGED <<schedVars, fmtVars, cacheVars>>
    \/ ~Uninterrupted /\ disposed = "none" /\ EvaluatorDispose /\ UNCHANGED <<fmtVars, cacheVars>>

DebounceSpec == Init /\ [][DebounceNext]_vars

\* One Sandbox and its script cache.
CacheNext ==
    \/ \E code \in Texts : runScript(code)
    \/ \E expr \in Texts : evalExpression(expr)
    \/ \E name \in Texts : read(name)
    \/ SandboxDispose

CacheSpec == Init /\ [][CacheNext]_vars

\* ------------------------------------------------------------------ claims
IsDecl(s) == s.op = "decl" /\ s.init \in Values
IsIdent(s, n) == s.op = "ident" /\ s.name = n
Last(h) == h[Len(h)]
Running(p) == procs[p].state = "running"

C2_ConsoleOnlyOwnWrites ==
    \A id \in Ids :
        \A i \in 1 .. Len(history[id]) :
            \A k \in 1 .. Len(history[id][i].consoleOutput) :
                history[id][i].consoleOutput[k] = "cur"

\* C3: what is declared by evaluations on one context id never shows in another:
\* a name that is bound in context A and that no evaluation on context B
\* declared is not bound in B, and `typeof name` evaluated on B yields
\* 'undefined'.
C3_ContextsIsolated ==
    \A a \in Ids, b \in Ids, n \in Names :
        (a # b /\ Has(a) /\ Has(b) /\ contexts[a].sandbox[n] # Absent
              /\ n \notin contexts[b].variables)
        => /\ Lookup(contexts[b], n) = Absent
           /\ (history[b] # <<>> /\ Last(history[b]).code.op = "typeof"
                  /\ Last(history[b]).code.name = n)
                 => (~Last(history[b]).isError /\ Last(history[b]).value = TypeUndefined)

C3_Witness ==
    \E a \in Ids, b \in Ids, n \in Names :
        /\ a # b /\ Has(a) /\ Has(b)
        /\ contexts[a].sandbox[n] # Absent
        /\ history[b] # <<>>
        /\ Last(history[b]).code.op = "typeof" /\ Last(history[b]).code.name = n
        /\ Last(history[b]).value = TypeUndefined

\* C4: execute never throws and never returns a rejected promise, whatever the
\* context id (also one never referenced before) and the snippet: every call
\* returns a result object.
C4_ExecuteNeverThrows == ~escaped

\* C5: a first-time declaration that fails leaves its name out of
\* context.variables: when the last evaluation on a context was a declaration
\* that failed and its name is still unbound, the name is not recorded.
C5_FailedDeclarationNotRecorded ==
    \A id \in Ids :
        (/\ Has(id) /\ inflight[id] = Idle /\ history[id] # <<>>
         /\ Last(history[id]).code.op = "decl"
         /\ Last(history[id]).isError
         /\ Lookup(contexts[id], Last(history[id]).code.name) = Absent)
        => Last(history[id]).code.name \notin contexts[id].variables

\* C6: at most one worker process of the session is alive, and a process that
\* is alive is the one the session references.
C6_OneLiveProcess ==
    /\ Cardinality({p \in Pids : Running(p)}) <= 1
    /\ \A p \in Pids : Running(p) => proc = p

\* C7: a request sent to a worker that was spawned after the previous one died
\* is answered by that worker: it is failed with 'worker exited' only when the
\* process it was sent to has exited.
C7_RespawnedWorkerAnswers ==
    \A i \in ReqIds :
        requests[i].outcome = "worker exited"
            => procs[requests[i].pid].state = "exited"

\* C8: when the timer of a request fires, the request resolves with 'timeout',
\* the process the session references has been killed, and the session is dead:
\* start() will fork a new process for the next execute.
C8_TimeoutKillsAndFails ==
    [][\A i \in ReqIds :
          OnTimeout(i) => /\ requests'[i].state = "resolved"
                          /\ requests'[i].outcome = "timeout"
                          /\ proc # 0 => (procs'[proc].killed /\ ~Running(proc)')
                          /\ NeedsFork']_vars

C8_Witness ==
    \E i \in ReqIds :
        /\ requests[i].outcome = "timeout"
        /\ procs[requests[i].pid].killed
        /\ proc = requests[i].pid

\* C9: when a worker process exits, every request that is pending resolves with
\* 'worker exited', the pending map is empty afterwards and the session
\* references no process.
C9_ExitFailsPending ==
    [][\A p \in Pids :
          (procs[p].state # "exited" /\ procs'[p].state = "exited")
          => /\ \A i \in pending :
                   requests[i].state = "open"
                       => (requests'[i].state = "resolved"
                             /\ requests'[i].outcome = "worker exited")
             /\ pending' = {}
             /\ proc' = 0]_vars

C9_Witness ==
    \E i \in ReqIds :
        /\ requests[i].outcome = "worker exited"
        /\ procs[requests[i].pid].state = "exited"
        /\ pending = {}
        /\ proc = 0

\* C10: a request leaves the pending map as soon as it is answered, timed out
\* or failed by the worker's exit: the pending map holds no resolved request.
C10_PendingHoldsOnlyOpenRequests ==
    \A i \in pending : requests[i].state = "open"

\* C11: a request that dispose() discarded (it is unresolved and has no entry in
\* the pending map) is never resolved afterwards, neither by a reply, nor by
\* the worker's exit, nor by its own timer.
C11_DisposedRequestsStayUnresolved ==
    [][\A i \in ReqIds :
          (requests[i].state = "open" /\ i \notin pending)
              => requests'[i].state = "open"]_vars

\* The state of the session, from its fields: it never forked, it references a
\* process it has not killed, or neither.
SessionState ==
    IF proc # 0 /\ ~procs[proc].killed THEN "Running"
    ELSE IF spawned = 0 THEN "Unstarted" ELSE "Dead"

C13_OneRequestOutstanding ==
    Cardinality({i \in ReqIds : requests[i].state = "open"}) <= 1

Live == {i \in Ids : Has(i)}

\* The first result returned on a context object: a declaration yields
\* undefined and is no error, a bare identifier is an error (nothing is bound).
FirstEvaluationIsFresh ==
    \A id \in Ids :
        Len(history[id]) = 1
        => /\ IsDecl(history[id][1].code)
                => (~history[id][1].isError /\ history[id][1].value = Undefined)
           /\ history[id][1].code.op = "ident" => history[id][1].isError

\* C14: the number of contexts in the registry never exceeds maxContexts.
C14_LiveContextsWithinCap == Cardinality(Live) <= maxContexts

\* The eviction loop run on order and registry c evicts the context of id
\* while the context of another id is registered.
RECURSIVE EvictedBeforeOthers(_, _, _)
EvictedBeforeOthers(order, c, id) ==
    IF Len(order) > maxContexts
    THEN \/ /\ Head(order) = id
            /\ c[id] # NoContext
            /\ \E j \in Ids \ {id} : c[j] # NoContext
         \/ EvictedBeforeOthers(Tail(order), [c EXCEPT ![Head(order)] = NoContext], id)
    ELSE FALSE

\* C15: an eviction removes the least recently used of the live contexts; the
\* context a getContext call has just created is the most recently used one, so
\* the call does not evict it while another context is registered.
C15_NewestContextSurvivesEviction ==
    [][\A id \in Ids, l \in Languages :
          (~Has(id) /\ GetContext(id, l))
              => ~EvictedBeforeOthers(Append(contextOrder, id),
                                      [contexts EXCEPT ![id] = createContext(l)], id)]_vars

\* C16: while an execute call on context A is awaiting its result, a
\* getContext on another id leaves A's context in the registry.
C16_NoEvictionDuringEvaluation ==
    [][\A a \in Ids :
          (/\ inflight[a] # Idle /\ inflight[a].on = "registered"
           /\ \E b \in Ids \ {a}, l \in Languages : GetContext(b, l))
          => contexts'[a] = contexts[a]]_vars

\* C17: an execute that starts on an id without a context creates one; a getContext on an
\* id that has a context leaves the registry as it is; and on one context a
\* value that a declaration bound is what the bare identifier evaluates to in
\* the next evaluation.
C17_ContextReused ==
    [][/\ \A id \in Ids :
             (~Has(id) /\ inflight[id] = Idle /\ inflight'[id] # Idle)
                 => contexts'[id] # NoContext
       /\ \A id \in Ids, l \in Languages :
             (Has(id) /\ GetContext(id, l)) => contexts' = contexts
       /\ \A id \in Ids :
             \A i \in 1 .. (Len(history'[id]) - 1) :
                 LET h == history'[id]
                 IN (IsDecl(h[i].code) /\ ~h[i].isError
                         /\ IsIdent(h[i + 1].code, h[i].code.name))
                    => (~h[i + 1].isError /\ h[i + 1].value = h[i].code.init)]_vars

C17_Witness ==
    \E id \in Ids :
        /\ Len(contextOrder) > 0 /\ contextOrder[1] = id
        /\ Len(history[id]) = 2
        /\ IsDecl(history[id][1].code)
        /\ IsIdent(history[id][2].code, history[id][1].code.name)
        /\ history[id][2].value = history[id][1].code.init

\* C18: clearContext of a registered id leaves the id registered with an empty
\* variables map, an empty console buffer and no name bound, and the first
\* evaluation on such a context behaves as on a new one.
C18_ClearContextResets ==
    [][/\ \A id \in Ids :
             ClearContext(id)
                 => /\ contexts'[id] # NoContext
                    /\ contexts'[id].variables = {}
                    /\ contexts'[id].buffer = <<>>
                    /\ \A n \in Names : Lookup(contexts'[id], n) = Absent
       /\ FirstEvaluationIsFresh']_vars

\* clearContext ran on a context that had a name bound, while an evaluation on
\* it was in progress.
C18_Witness ==
    \E id \in Ids, n \in Names :
        /\ detached[id] # NoContext
        /\ detached[id].sandbox[n] # Absent
        /\ detached[id].variables = {}
        /\ Has(id)
        /\ Lookup(contexts[id], n) = Absent

\* C19: disposeContext of a registered id removes the id from the registry and
\* leaves the contexts of the other ids as they are; the first evaluation on the
\* id afterwards runs on a new context.
C19_DisposeContextRemoves ==
    [][/\ \A id \in Ids :
             DisposeContext(id)
                 => /\ contexts'[id] = NoContext
                    /\ \A j \in Ids \ {id} : contexts'[j] = contexts[j]
       /\ \A id \in Ids :
             (~Has(id) /\ inflight[id] = Idle /\ inflight'[id] # Idle
                  /\ inflight'[id].code.op = "ident")
                 => inflight'[id].promise = "rejected"
       /\ FirstEvaluationIsFresh']_vars

\* disposeContext ran on a context with a name bound while an evaluation on it
\* was in progress, and the other id has a context.
C19_Witness ==
    \E id \in Ids, n \in Names :
        /\ ~Has(id)
        /\ detached[id] # NoContext
        /\ detached[id].sandbox[n] # Absent
        /\ contextOrder = <<>>
        /\ \E j \in Ids \ {id} : Has(j)

\* C20: the result of a snippet whose synchronous execution does not end is an
\* error that names a timeout, never a success and never another error.
C20_NonTerminationIsTimeout ==
    \A id \in Ids :
        \A i \in 1 .. Len(history[id]) :
            history[id][i].code.op = "loop"
                => (history[id][i].isError /\ history[id][i].err = "timeout")

\* C21: the first evaluation on a context object that was just created, or was
\* just put in place by clearContext, when it is typeof process, typeof require
\* or typeof global, returns the string 'undefined' and is no error.
C21_HostNamesUndefined ==
    \A id \in Ids :
        (Len(history[id]) = 1 /\ history[id][1].code.op = "typeof"
             /\ history[id][1].code.name \in Blocked)
        => (~history[id][1].isError /\ history[id][1].value = TypeUndefined)

\* process was redefined on docA, the context was reset, and typeof process was
\* then the first evaluation on the new context object.
C21_Witness ==
    /\ evalSeq = 2
    /\ ~Has("ts-docB") /\ inflight["ts-docB"] = Idle /\ detached["docA"] = NoContext
    /\ Len(history["docA"]) = 1
    /\ history["docA"][1].code = [op |-> "typeof", name |-> "process", init |-> "-"]
    /\ history["docA"][1].value = TypeUndefined


\* C22: the side effects of a snippet happen once per execute call: a result
\* for a snippet that calls console.log once holds exactly one entry written by
\* that snippet.
C22_SideEffectsOnce ==
    \A id \in Ids :
        \A i \in 1 .. Len(history[id]) :
            LET r == history[id][i]
            IN r.code.op \in {"log", "logVoid"}
                   => Cardinality({k \in 1 .. Len(r.consoleOutput) :
                                      r.consoleOutput[k] = "cur"}) = 1


\* The results before position i of h that declared name n.
DeclaredBefore(h, i, n) ==
    {j \in 1 .. (i - 1) :
        h[j].code.op \in {"decl", "declTyped", "block"} /\ h[j].code.name = n}

\* C23: a declaration const x = v whose name no earlier snippet of the context
\* declared returns success with the value undefined; one whose name an earlier
\* declaration bound with success returns success with the value v.
C23_DeclarationValue ==
    \A id \in Ids :
        \A i \in 1 .. Len(history[id]) :
            LET h == history[id]
                n == h[i].code.name
            IN (IsDecl(h[i].code) /\ n \in Names)
                   => /\ DeclaredBefore(h, i, n) = {}
                          => (~h[i].isError /\ h[i].value = Undefined)
                      /\ (\E j \in DeclaredBefore(h, i, n) :
                              IsDecl(h[j].code) /\ ~h[j].isError)
                          => (~h[i].isError /\ h[i].value = h[i].code.init)


\* C24: context.variables holds every name a successful evaluation has bound
\* in the context, so a snippet that succeeded does not fail with a
\* redeclaration error when it is evaluated again on the same context.
C24_DeclaredNamesComplete ==
    \A id \in Ids :
        /\ (Has(id) /\ inflight[id] = Idle)
               => \A n \in Names :
                      (contexts[id].lexical[n] \notin {Absent, TDZ}
                           \/ contexts[id].sandbox[n] # Absent)
                      => n \in contexts[id].variables
        /\ \A i \in 1 .. (Len(history[id]) - 1) :
               LET h == history[id]
               IN (h[i].code = h[i + 1].code /\ ~h[i].isError)
                      => ~(h[i + 1].isError /\ h[i + 1].err = "syntax")


\* C25: the worker runs a snippet a second time, as a statement, only when the
\* expression attempt failed with a syntax error: a snippet that logs once and
\* then throws an Error is executed once, so its reply carries one console entry.
C25_RetryOnlyAfterSyntaxError ==
    \A i \in ReqIds :
        (requests[i].code.op = "logThrow"
             /\ requests[i].outcome \in {"reply", "reply error"})
        => (requests[i].outcome = "reply error" /\ Len(requests[i].console) = 1)


\* Request i was answered by the worker it was sent to.
Served(i) == requests[i].outcome \in {"reply", "reply error"}

Sent(i) == \E p \in Pids : inbox'[p] = Append(inbox[p], i)

\* C27: the correlation id of every request sent is one no earlier request of
\* the session had, and is greater than all of theirs, whether or not the
\* worker was forked anew in between.
C27_CorrelationIdsIncrease ==
    [][\A i \in ReqIds :
          Sent(i) => /\ requests[i].state = "none"
                     /\ \A j \in ReqIds : requests[j].state # "none" => j < i]_vars

\* The second request went to a worker forked after the first one's had ended.
C27_Witness ==
    /\ requests[1].state # "none" /\ requests[2].state # "none"
    /\ requests[2].pid # requests[1].pid


C29_EmptySnippetYieldsUndefined ==
    \A id \in Ids :
        \A i \in 1 .. Len(history[id]) :
            history[id][i].code.op = "empty"
                => (~history[id][i].isError /\ history[id][i].value = Undefined)


\* The value is an object one of whose properties is the object itself, the
\* other being a number or missing.
SelfReferencing(heap) ==
    \E k \in KeyIdx :
        heap[Root][k] = Root /\ \A j \in KeyIdx \ {k} : heap[Root][j] \notin Nodes

RECURSIVE Count(_, _)
Count(text, tok) ==
    IF text = <<>> THEN 0
    ELSE (IF Head(text) = tok THEN 1 ELSE 0) + Count(Tail(text), tok)

\* C30: the text formatValue returns for an object that refers to itself holds
\* exactly one [Circular] marker, in the place of the self-reference.
C30_OneCircularMarker ==
    (fmtText # NotFormatted /\ SelfReferencing(fmtValue))
        => Count(fmtText.text, Circular) = 1

\* C31: the result for a snippet whose value is a thenable is a failure, or a
\* success whose value is what the thenable was fulfilled with (undefined for
\* the promise of the sleep snippet); it is never the thenable.
C31_ThenableIsAwaited ==
    \A id \in Ids :
        \A i \in 1 .. Len(history[id]) :
            history[id][i].code.op = "sleep"
                => (history[id][i].isError \/ history[id][i].value = Undefined)

\* C32: every execute call on the engine returns: a call in progress on a
\* context is eventually over, whether or not the thenable it awaits settles.
C32_ExecuteReturns ==
    \A id \in Ids : (inflight[id] # Idle) ~> (inflight[id] = Idle)

\* C33: every request of a session is eventually resolved, by the worker's
\* reply, by its timer or by the exit of the worker, whichever comes first.
C33_RequestResolves ==
    \A i \in ReqIds : (requests[i].state = "open") ~> (requests[i].state = "resolved")

\* The first request ended with the exit of its worker, the second one, sent to
\* the worker forked next, with its timer.
C33_Witness ==
    /\ requests[1].state = "resolved" /\ requests[1].outcome = "worker exited"
    /\ requests[2].state = "resolved" /\ requests[2].outcome = "timeout"
    /\ requests[2].pid # requests[1].pid

\* The replies delivered to the session in this step.
Delivered == replies \ replies'

\* C34: a request is resolved by a reply only when the reply carries the
\* request's correlation id; a reply whose id has no resolver in pending changes
\* neither pending nor any request; and the outcome of a resolved request never
\* changes afterwards.
C34_RepliesMatchById ==
    [][/\ \A i \in ReqIds :
             /\ requests[i].state = "resolved"
                    => (requests'[i].outcome = requests[i].outcome
                            /\ requests'[i].result = requests[i].result)
             /\ (requests[i].state = "open"
                     /\ requests'[i].outcome \in {"reply", "reply error"})
                    => \E m \in Delivered : m.id = i
       /\ \A m \in Delivered :
             m.id \notin pending => (pending' = pending /\ requests' = requests)]_vars

\* The worker answered the first request, a declaration, but the answer was
\* delivered after the exit of the worker had resolved the request.
C34_Witness ==
    /\ IsDecl(requests[1].code)
    /\ requests[1].outcome = "worker exited"
    /\ procs[requests[1].pid].lexical[requests[1].code.name] # Absent
    /\ replies = {}

\* C35: the timer of a request kills only the worker process the request was
\* sent to.
C35_TimerKillsOwnWorker ==
    [][\A id \in ReqIds : \A p \in Pids :
          (requests[id].timer /\ ~requests'[id].timer
               /\ ~procs[p].killed /\ procs'[p].killed)
              => requests[id].pid = p]_vars

\* C36: once the session of the document has been disposed, by
\* Evaluator.dispose or by Evaluator.clearResults, no worker is forked for it.
C36_NoWorkerAfterDispose ==
    [][disposed # "none" => spawned' = spawned]_vars

\* The evaluateEditor calls started so far.
Started == {p \in PassIds : passes[p].state # "none"}

C37_OrderMatchesRegistry ==
    /\ {contextOrder[i] : i \in 1 .. Len(contextOrder)} = Live
    /\ \A i, j \in 1 .. Len(contextOrder) : contextOrder[i] = contextOrder[j] => i = j

\* C38: the value of a successful result is produced by its own snippet: a
\* declaration yields undefined, or the value it assigns when the name was
\* already declared, and an empty snippet yields undefined; never a value left
\* by an earlier evaluation.
C38_ValueIsOwn ==
    \A id \in Ids :
        \A i \in 1 .. Len(history[id]) :
            LET r == history[id][i]
            IN (r.code.op \in {"decl", "declTyped", "empty"} /\ ~r.isError)
                   => (r.value = Undefined
                           \/ (r.code.op # "empty" /\ r.value = r.code.init))

\* C40: the script cache holds at most cacheSize scripts, under distinct keys;
\* a call that stores a script in a full cache removes the entry inserted
\* earliest and no other; and a cache hit returns the script compiled from the
\* filename and the code of the call.
C40_ScriptCacheBounded ==
    [][/\ Len(scriptCache') <= cacheSize
       /\ \A i, j \in 1 .. Len(scriptCache') :
             scriptCache'[i].key = scriptCache'[j].key => i = j
       /\ (Len(scriptCache) = cacheSize /\ scriptCache' # scriptCache /\ scriptCache' # <<>>)
              => /\ Len(scriptCache') = cacheSize
                 /\ \A i \in 1 .. (cacheSize - 1) : scriptCache'[i] = scriptCache[i + 1]
       /\ served'.hit
              => served'.script = Script(served'.code, served'.filename)]_vars

\* The cache is full, its oldest entry was stored by runScript("x") and the
\* last call, evalExpression("x"), was a hit.
C40_Witness ==
    /\ Len(scriptCache) = cacheSize
    /\ scriptCache[1].script = Script("x", "quokka-sandbox")
    /\ served.hit
    /\ served.filename = "quokka-expr"
    /\ served.code = "(x)"

=============================================================================
